---------------------------- MODULE Spec2Model ----------------------------
(***************************************************************************)
(* A model of drawdb's SQL generator (src/src/utils/toSQL.js) and of the   *)
(* string helpers it uses (src/src/utils/utils.js).                        *)
(*                                                                         *)
(* Text.  A JavaScript string is modelled as a sequence of atoms; the      *)
(* string is the concatenation of its atoms (Text below).  A piece of      *)
(* user data (a name, a type tag, a default, a constraint action) is a     *)
(* sequence of one-character atoms, so that case conversion, quote tests   *)
(* and the function-call pattern are computed character by character.     *)
(* Every static chunk of a template literal of the source is one atom,     *)
(* copied from the source.  The lexer of TLA+ accepts no backquote inside  *)
(* a string, so the backquote character is written ^ throughout.           *)
(*                                                                         *)
(* Exceptions.  A TypeError raised while a template is being assembled is  *)
(* the atom TypeError inside the assembled sequence; Completion turns an   *)
(* assembled sequence into the outcome of the call.                        *)
(***************************************************************************)
EXTENDS Integers, Sequences, FiniteSets, TLC

VARIABLES obj, keywords, op, arg, result

vars == <<obj, keywords, op, arg, result>>

-----------------------------------------------------------------------------
(* Strings                                                                 *)

LowerLetters ==
  <<"a","b","c","d","e","f","g","h","i","j","k","l","m",
    "n","o","p","q","r","s","t","u","v","w","x","y","z">>

UpperLetters ==
  <<"A","B","C","D","E","F","G","H","I","J","K","L","M",
    "N","O","P","Q","R","S","T","U","V","W","X","Y","Z">>

Digits == {"0","1","2","3","4","5","6","7","8","9"}

Letters == {LowerLetters[i] : i \in DOMAIN LowerLetters}
             \cup {UpperLetters[i] : i \in DOMAIN UpperLetters}

UpperChar(c) ==
  IF \E i \in DOMAIN LowerLetters : LowerLetters[i] = c
    THEN UpperLetters[CHOOSE i \in DOMAIN LowerLetters : LowerLetters[i] = c]
    ELSE c

LowerChar(c) ==
  IF \E i \in DOMAIN UpperLetters : UpperLetters[i] = c
    THEN LowerLetters[CHOOSE i \in DOMAIN UpperLetters : UpperLetters[i] = c]
    ELSE c

toUpperCase(str) == [i \in 1..Len(str) |-> UpperChar(str[i])]

toLowerCase(str) == [i \in 1..Len(str) |-> LowerChar(str[i])]

(* \w of a JavaScript regular expression *)
IsWordChar(c) == c \in Letters \cup Digits \cup {"_"}

RECURSIVE JoinFrom(_, _, _)
JoinFrom(parts, sep, i) ==
  IF i > Len(parts) THEN <<>>
  ELSE IF i = Len(parts) THEN parts[i]
  ELSE parts[i] \o sep \o JoinFrom(parts, sep, i + 1)

(* Array.prototype.join: the parts with sep between them *)
Join(parts, sep) == JoinFrom(parts, sep, 1)

(* an array interpolated into a template literal is joined with "," *)
ArrayToString(parts) == Join(parts, <<",">>)

RECURSIVE TextFrom(_, _)
TextFrom(s, i) == IF i > Len(s) THEN "" ELSE s[i] \o TextFrom(s, i + 1)

(* the JavaScript string an atom sequence stands for *)
Text(s) == TextFrom(s, 1)

-----------------------------------------------------------------------------
(* The type vocabulary                                                     *)

T_INT == <<"I","N","T">>
T_SMALLINT == <<"S","M","A","L","L","I","N","T">>
T_BIGINT == <<"B","I","G","I","N","T">>
T_DECIMAL == <<"D","E","C","I","M","A","L">>
T_NUMERIC == <<"N","U","M","E","R","I","C">>
T_FLOAT == <<"F","L","O","A","T">>
T_DOUBLE == <<"D","O","U","B","L","E">>
T_REAL == <<"R","E","A","L">>
T_CHAR == <<"C","H","A","R">>
T_VARCHAR == <<"V","A","R","C","H","A","R">>
T_TEXT == <<"T","E","X","T">>
T_DATE == <<"D","A","T","E">>
T_TIME == <<"T","I","M","E">>
T_TIMESTAMP == <<"T","I","M","E","S","T","A","M","P">>
T_DATETIME == <<"D","A","T","E","T","I","M","E">>
T_BOOLEAN == <<"B","O","O","L","E","A","N">>
T_BINARY == <<"B","I","N","A","R","Y">>
T_VARBINARY == <<"V","A","R","B","I","N","A","R","Y">>
T_BLOB == <<"B","L","O","B">>
T_JSON == <<"J","S","O","N">>
T_UUID == <<"U","U","I","D">>
T_ENUM == <<"E","N","U","M">>
T_SET == <<"S","E","T">>

(* the known type names (src/data/constants, imported at toSQL.js:1) *)
sqlDataTypes ==
  { T_INT, T_SMALLINT, T_BIGINT, T_DECIMAL, T_NUMERIC, T_FLOAT, T_DOUBLE,
    T_REAL, T_CHAR, T_VARCHAR, T_TEXT, T_DATE, T_TIME, T_TIMESTAMP,
    T_DATETIME, T_BOOLEAN, T_BINARY, T_VARBINARY, T_BLOB, T_JSON, T_UUID,
    T_ENUM, T_SET }

(* the value of a property that was never set, as a template prints it *)
Undefined == <<"undefined">>

(* truthiness of a string-valued property *)
Truthy(s) == s # <<>> /\ s # Undefined

isSized(type) == type \in {T_CHAR, T_VARCHAR, T_BINARY, T_VARBINARY, T_TEXT}

hasPrecision(type) == type \in {T_DOUBLE, T_NUMERIC, T_DECIMAL, T_FLOAT}

hasCheck(type) ==
  type \in { T_INT, T_SMALLINT, T_BIGINT, T_CHAR, T_VARCHAR, T_FLOAT,
             T_DECIMAL, T_DOUBLE, T_NUMERIC, T_REAL }

hasQuotes(type) ==
  type \in { T_CHAR, T_VARCHAR, T_BINARY, T_VARBINARY, T_ENUM, T_DATE,
             T_TIME, T_TIMESTAMP, T_DATETIME }

-----------------------------------------------------------------------------
(* utils.js                                                                *)

strHasQuotes(str) ==
  IF Len(str) < 2 THEN FALSE
  ELSE \/ (str[1] = str[Len(str)] /\ str[1] = "'")
       \/ (str[1] = str[Len(str)] /\ str[1] = "\"")
       \/ (str[1] = str[Len(str)] /\ str[1] = "^")

(* the module-level array of utils.js:47, as the atom sequence of each entry *)
KeywordList ==
  << <<"C","U","R","R","E","N","T","_","T","I","M","E","S","T","A","M","P">>,
     <<"N","U","L","L">> >>

(* isKeyword comparing the string as it was given *)
isKeyword_CaseSensitive(kw, str) == \E i \in DOMAIN kw : kw[i] = str

(* keywords.includes(str.toUpperCase()), kw the array as it now is *)
isKeyword(kw, str) == \E i \in DOMAIN kw : kw[i] = toUpperCase(str)

(* /\w+\([^)]*\)$/.test(str): some "(" preceded by a word character, closed *)
(* by a ")" that ends the string, with no ")" in between                   *)
isFunction(str) ==
  \E i \in 2..(Len(str) - 1) :
    /\ IsWordChar(str[i - 1])
    /\ str[i] = "("
    /\ str[Len(str)] = ")"
    /\ \A j \in (i + 1)..(Len(str) - 1) : str[j] # ")"

-----------------------------------------------------------------------------
(* toSQL.js: the JSON-schema fragment of a composite type                  *)

(* QuoteEach with the values taken last to first *)
QuoteEach_Reversed(values, q) ==
  [i \in 1..Len(values) |-> <<q>> \o values[Len(values) + 1 - i] \o <<q>>]

QuoteEach(values, q) == [i \in 1..Len(values) |-> <<q>> \o values[i] \o <<q>>]

getJsonType(f) ==
  IF f.type \notin sqlDataTypes
    THEN <<"{ \"type\" : \"object\", additionalProperties : true }">>
  ELSE IF f.type \in {T_INT, T_SMALLINT, T_BIGINT, T_DECIMAL, T_NUMERIC,
                      T_REAL, T_FLOAT}
    THEN <<"{ \"type\" : \"number\" }">>
  ELSE IF f.type = T_BOOLEAN
    THEN <<"{ \"type\" : \"boolean\" }">>
  ELSE IF f.type = T_JSON
    THEN <<"{ \"type\" : \"object\", \"additionalProperties\" : true }">>
  ELSE IF f.type = T_ENUM
    THEN <<"{\n\t\t\t\t\t\"type\" : \"string\",\n\t\t\t\t\t\"enum\" : [">>
         \o Join(QuoteEach(f.values, "\""), <<", ">>)
         \o <<"]\n\t\t\t\t}">>
  ELSE IF f.type = T_SET
    THEN <<"{\n\t\t\t\t\t\"type\": \"array\",\n\t\t\t\t\t\"items\": {\n\t\t\t\t\t\t\"type\": \"string\",\n\t\t\t\t\t\t\"enum\": [">>
         \o Join(QuoteEach(f.values, "\""), <<", ">>)
         \o <<"]\n\t\t\t\t\t}\n\t\t\t\t}">>
  ELSE <<"{ \"type\" : \"string\"}">>

(* what reading a property of undefined leaves in the text being assembled *)
TypeError == "#TypeError"

SchemaProperty(f) == <<"\"">> \o f.name \o <<"\" : ">> \o getJsonType(f)

(* generateSchema tolerating an absent Type: the text holds "undefined" *)
generateSchema_Guarded(found) ==
  IF found = <<>> THEN Undefined
  ELSE <<"{\n\t\t\t\"$schema\": \"http://json-schema.org/draft-04/schema#\",\n\t\t\t\"type\": \"object\",\n\t\t\t\"properties\": {\n\t\t\t\t">>
       \o Join([i \in 1..Len(found[1].fields) |-> SchemaProperty(found[1].fields[i])],
               <<",\n\t\t\t\t">>)
       \o <<"\n\t\t\t},\n\t\t\t\"additionalProperties\": false\n\t\t}">>

(* found is the result of Array.prototype.find: <<>> for undefined, <<t>> *)
(* for the element t.  type.fields of undefined raises a TypeError.        *)
generateSchema(found) ==
  IF found = <<>> THEN <<TypeError>>
  ELSE <<"{\n\t\t\t\"$schema\": \"http://json-schema.org/draft-04/schema#\",\n\t\t\t\"type\": \"object\",\n\t\t\t\"properties\": {\n\t\t\t\t">>
       \o Join([i \in 1..Len(found[1].fields) |-> SchemaProperty(found[1].fields[i])],
               <<",\n\t\t\t\t">>)
       \o <<"\n\t\t\t},\n\t\t\t\"additionalProperties\": false\n\t\t}">>

-----------------------------------------------------------------------------
(* toSQL.js: type mapping                                                  *)

getTypeStringMySQL(field) ==
  IF field.type = T_UUID THEN <<"VARCHAR(36)">>
  ELSE IF hasPrecision(field.type) \/ isSized(field.type)
    THEN field.type
         \o (IF Truthy(field.size) THEN <<"(">> \o field.size \o <<")">> ELSE <<>>)
  ELSE IF field.type = T_SET \/ field.type = T_ENUM
    THEN field.type \o <<"(">>
         \o Join(QuoteEach(field.values, "\""), <<", ">>) \o <<")">>
  ELSE IF field.type \notin sqlDataTypes THEN <<"JSON">>
  ELSE field.type

(* getTypeStringPostgres with the default branch keeping the letter case *)
getTypeStringPostgres_AsGiven(field) ==
  IF field.type = T_SMALLINT /\ field.increment THEN <<"smallserial">>
  ELSE IF field.type = T_INT /\ field.increment THEN <<"serial">>
  ELSE IF field.type = T_BIGINT /\ field.increment THEN <<"bigserial">>
  ELSE IF field.type = T_ENUM THEN field.name \o <<"_t">>
  ELSE IF field.type = T_SET THEN field.name \o <<"_t[]">>
  ELSE IF field.type = T_TIMESTAMP THEN <<"TIMESTAMPTZ">>
  ELSE IF field.type = T_DATETIME THEN <<"timestamp">>
  ELSE IF isSized(field.type)
    THEN (IF field.type = T_BINARY THEN <<"bit">>
          ELSE IF field.type = T_VARBINARY THEN <<"bit varying">>
          ELSE toLowerCase(field.type))
         \o <<"(">> \o field.size \o <<")">>
  ELSE IF hasPrecision(field.type) /\ field.size # <<>>
    THEN field.type \o field.size
  ELSE field.type

getTypeStringPostgres(field) ==
  IF field.type = T_SMALLINT /\ field.increment THEN <<"smallserial">>
  ELSE IF field.type = T_INT /\ field.increment THEN <<"serial">>
  ELSE IF field.type = T_BIGINT /\ field.increment THEN <<"bigserial">>
  ELSE IF field.type = T_ENUM THEN field.name \o <<"_t">>
  ELSE IF field.type = T_SET THEN field.name \o <<"_t[]">>
  ELSE IF field.type = T_TIMESTAMP THEN <<"TIMESTAMPTZ">>
  ELSE IF field.type = T_DATETIME THEN <<"timestamp">>
  ELSE IF isSized(field.type)
    THEN (IF field.type = T_BINARY THEN <<"bit">>
          ELSE IF field.type = T_VARBINARY THEN <<"bit varying">>
          ELSE toLowerCase(field.type))
         \o <<"(">> \o field.size \o <<")">>
  ELSE IF hasPrecision(field.type) /\ field.size # <<>>
    THEN field.type \o field.size
  ELSE toLowerCase(field.type)

getTypeStringMSSQL(field, baseType) ==
  IF field.type = T_ENUM
    THEN IF baseType THEN <<"NVARCHAR(255)">>
         ELSE <<"NVARCHAR(255) CHECK([">> \o field.name \o <<"] in (">>
              \o Join(QuoteEach(field.values, "'"), <<", ">>) \o <<"))">>
  ELSE IF field.type = T_BOOLEAN THEN <<"BIT">>
  ELSE IF field.type = T_SET THEN <<"NVARCHAR(255)">>
  ELSE IF field.type = T_BLOB THEN <<"VARBINARY(MAX)">>
  ELSE IF field.type = T_JSON THEN <<"NVARCHAR(MAX)">>
  ELSE IF field.type = T_TEXT THEN <<"TEXT">>
  ELSE LET type == IF field.type = T_VARCHAR THEN <<"NVARCHAR">>
                   ELSE IF field.type = T_UUID THEN <<"UNIQUEIDENTIFIER">>
                   ELSE IF field.type = T_DOUBLE THEN <<"FLOAT">>
                   ELSE field.type
       IN IF isSized(field.type)
            THEN type \o <<"(">> \o field.size \o <<")">>
            ELSE type

(* dbms is one of "mysql", "postgres", "mssql" *)
getTypeString(field, dbms, baseType) ==
  IF dbms = "mysql" THEN getTypeStringMySQL(field)
  ELSE IF dbms = "postgres" THEN getTypeStringPostgres(field)
  ELSE getTypeStringMSSQL(field, baseType)

getSQLiteType(field) ==
  IF field.type \in {T_INT, T_SMALLINT, T_BIGINT, T_BOOLEAN} THEN <<"INTEGER">>
  ELSE IF field.type \in {T_DECIMAL, T_NUMERIC, T_FLOAT, T_DOUBLE, T_REAL}
    THEN <<"REAL">>
  ELSE IF field.type \in { T_CHAR, T_VARCHAR, T_UUID, T_TEXT, T_DATE, T_TIME,
                            T_TIMESTAMP, T_DATETIME, T_BINARY, T_VARBINARY }
    THEN <<"TEXT">>
  ELSE IF field.type = T_ENUM
    THEN <<"TEXT CHECK(\"">> \o field.name \o <<"\" in (">>
         \o Join(QuoteEach(field.values, "'"), <<", ">>) \o <<"))">>
  ELSE <<"BLOB">>

-----------------------------------------------------------------------------
(* toSQL.js: the literal of a default                                      *)

parseDefault(kw, field) ==
  IF \/ strHasQuotes(field.default)
     \/ isFunction(field.default)
     \/ isKeyword(kw, field.default)
     \/ ~hasQuotes(field.type)
    THEN field.default
    ELSE <<"'">> \o field.default \o <<"'">>

-----------------------------------------------------------------------------
(* toSQL.js: the pieces the five compilers share                           *)

Opt(cond, s) == IF cond THEN s ELSE <<>>

IsPrimary(f) == f.primary

IsEnumOrSet(f) == f.type = T_ENUM \/ f.type = T_SET

(* obj.types.find((t) => t.name === field.type.toLowerCase()) *)
FindType(o, field) ==
  LET hits == {i \in DOMAIN o.types : o.types[i].name = toLowerCase(field.type)}
  IN IF hits = {} THEN <<>>
     ELSE <<o.types[CHOOSE i \in hits : \A j \in hits : i <= j]>>

(* the explicit CHECK of a column: toSQL.js:315-317, 433-435, 564-566 *)
CheckClause(field) ==
  IF field.check = <<>> \/ ~hasCheck(field.type) THEN <<>>
  ELSE <<" CHECK(">> \o field.check \o <<")">>

(* the CHECK of a MySQL or MariaDB column; q quotes the embedded schema *)
JsonCheckClause(o, field, q) ==
  IF field.check = <<>> \/ ~hasCheck(field.type)
    THEN IF field.type \notin sqlDataTypes
           THEN <<" CHECK(\n\t\tJSON_SCHEMA_VALID(" \o q>>
                \o generateSchema(FindType(o, field))
                \o <<q \o ", ^">> \o field.name \o <<"^))">>
           ELSE <<>>
    ELSE <<" CHECK(">> \o field.check \o <<")">>

FieldComment(field) ==
  Opt(field.comment # <<>>, <<"\t-- ">> \o field.comment \o <<"\n">>)

(* PrimaryKeyClause with the filter on f.primary lost in the list *)
PrimaryKeyClause_AllColumns(table, l, r) ==
  LET pk == SelectSeq(table.fields, IsPrimary)
      quoted(f) == <<l>> \o f.name \o <<r>>
  IN Opt(Len(pk) > 0,
         <<",\n\tPRIMARY KEY(">>
         \o Join([n \in DOMAIN table.fields |-> quoted(table.fields[n])], <<", ">>) \o <<")">>)

(* the trailing PRIMARY KEY clause; l and r delimit an identifier *)
PrimaryKeyClause(table, l, r) ==
  LET pk == SelectSeq(table.fields, IsPrimary)
      quoted(f) == <<l>> \o f.name \o <<r>>
  IN Opt(Len(pk) > 0,
         <<",\n\tPRIMARY KEY(">> \o Join([n \in DOMAIN pk |-> quoted(pk[n])], <<", ">>) \o <<")">>)

IndexFields(i, l, r) ==
  LET quoted(f) == <<l>> \o f \o <<r>>
  IN Join([n \in DOMAIN i.fields |-> quoted(i.fields[n])], <<", ">>)

(* AlterTable with the actions emitted as they were given *)
AlterTable_AsGiven(o, ref, l, r, tail) ==
  <<"ALTER TABLE " \o l>> \o o.tables[ref.startTableId + 1].name
  \o <<r \o "\nADD FOREIGN KEY(" \o l>>
  \o o.tables[ref.startTableId + 1].fields[ref.startFieldId + 1].name
  \o <<r \o ") REFERENCES " \o l>> \o o.tables[ref.endTableId + 1].name
  \o <<r \o "(" \o l>>
  \o o.tables[ref.endTableId + 1].fields[ref.endFieldId + 1].name
  \o <<r \o ")\nON UPDATE ">> \o ref.updateConstraint
  \o <<" ON DELETE ">> \o ref.deleteConstraint \o <<tail>>

(* the trailing ALTER TABLE of one reference; l and r delimit an identifier *)
AlterTable(o, ref, l, r, tail) ==
  <<"ALTER TABLE " \o l>> \o o.tables[ref.startTableId + 1].name
  \o <<r \o "\nADD FOREIGN KEY(" \o l>>
  \o o.tables[ref.startTableId + 1].fields[ref.startFieldId + 1].name
  \o <<r \o ") REFERENCES " \o l>> \o o.tables[ref.endTableId + 1].name
  \o <<r \o "(" \o l>>
  \o o.tables[ref.endTableId + 1].fields[ref.endFieldId + 1].name
  \o <<r \o ")\nON UPDATE ">> \o toUpperCase(ref.updateConstraint)
  \o <<" ON DELETE ">> \o toUpperCase(ref.deleteConstraint) \o <<tail>>

(* the outcome of a call: the text, or the TypeError raised assembling it *)
Completion(text) ==
  IF \E i \in DOMAIN text : text[i] = TypeError
    THEN [threw |-> TRUE, text |-> <<>>]
    ELSE [threw |-> FALSE, text |-> text]

-----------------------------------------------------------------------------
(* jsonToMySQL                                                             *)

MySQLColumn(kw, o, field) ==
  FieldComment(field) \o <<"\t^">> \o field.name \o <<"^ ">>
  \o getTypeString(field, "mysql", FALSE)
  \o Opt(field.notNull, <<" NOT NULL">>)
  \o Opt(field.increment, <<" AUTO_INCREMENT">>)
  \o Opt(field.unique, <<" UNIQUE">>)
  \o Opt(field.default # <<>>, <<" DEFAULT ">> \o parseDefault(kw, field))
  \o JsonCheckClause(o, field, "\"")
  \o Opt(Truthy(field.comment), <<" COMMENT '">> \o field.comment \o <<"'">>)

MySQLIndex(table, i) ==
  <<"\nCREATE ">> \o Opt(i.unique, <<"UNIQUE ">>) \o <<"INDEX ^">> \o i.name
  \o <<"^\nON ^">> \o table.name \o <<"^ (">> \o IndexFields(i, "^", "^")
  \o <<");">>

MySQLTable(kw, o, table) ==
  LET col(f) == MySQLColumn(kw, o, f)
      idx(i) == MySQLIndex(table, i)
  IN Opt(table.comment # <<>>, <<"/* ">> \o table.comment \o <<" */\n">>)
     \o <<"CREATE TABLE ^">> \o table.name \o <<"^ (\n">>
     \o Join([n \in DOMAIN table.fields |-> col(table.fields[n])], <<",\n">>)
     \o PrimaryKeyClause(table, "^", "^")
     \o <<"\n)">>
     \o Opt(Truthy(table.comment), <<" COMMENT='">> \o table.comment \o <<"'">>)
     \o <<";\n">>
     \o Opt(Len(table.indices) > 0,
            <<"\n">> \o ArrayToString([n \in DOMAIN table.indices |-> idx(table.indices[n])]))

jsonToMySQL(kw, o) ==
  LET tbl(t) == MySQLTable(kw, o, t)
      ref(r) == AlterTable(o, r, "^", "^", ";")
  IN Join([n \in DOMAIN o.tables |-> tbl(o.tables[n])], <<"\n">>) \o <<"\n">>
     \o Join([n \in DOMAIN o.references |-> ref(o.references[n])], <<"\n">>)

-----------------------------------------------------------------------------
(* jsonToMariaDB                                                           *)

MariaDBColumn(kw, o, field) ==
  FieldComment(field) \o <<"\t^">> \o field.name \o <<"^ ">>
  \o getTypeString(field, "mysql", FALSE)
  \o Opt(field.notNull, <<" NOT NULL">>)
  \o Opt(field.increment, <<" AUTO_INCREMENT">>)
  \o Opt(field.unique, <<" UNIQUE">>)
  \o Opt(field.default # <<>>, <<" DEFAULT ">> \o parseDefault(kw, field))
  \o JsonCheckClause(o, field, "'")

MariaDBTable(kw, o, table) ==
  LET col(f) == MariaDBColumn(kw, o, f)
      idx(i) == MySQLIndex(table, i)
  IN Opt(table.comment # <<>>, <<"/* ">> \o table.comment \o <<" */\n">>)
     \o <<"CREATE OR REPLACE TABLE ^">> \o table.name \o <<"^ (\n">>
     \o Join([n \in DOMAIN table.fields |-> col(table.fields[n])], <<",\n">>)
     \o PrimaryKeyClause(table, "^", "^")
     \o <<"\n);">>
     \o Opt(Len(table.indices) > 0,
            <<"\n">> \o ArrayToString([n \in DOMAIN table.indices |-> idx(table.indices[n])]))

jsonToMariaDB(kw, o) ==
  LET tbl(t) == MariaDBTable(kw, o, t)
      ref(r) == AlterTable(o, r, "^", "^", ";")
  IN Join([n \in DOMAIN o.tables |-> tbl(o.tables[n])], <<"\n">>) \o <<"\n">>
     \o Join([n \in DOMAIN o.references |-> ref(o.references[n])], <<"\n">>)

-----------------------------------------------------------------------------
(* jsonToPostgreSQL                                                        *)

EnumValues(f) == Join(QuoteEach(f.values, "'"), <<", ">>)

(* the CREATE TYPE ... AS ENUM of one ENUM or SET field; tail ends it *)
PostgresEnumType(f, tail) ==
  <<"CREATE TYPE \"">> \o f.name \o <<"_t\" AS ENUM (">> \o EnumValues(f)
  \o <<tail>>

PostgresTypeField(f) ==
  <<"\t">> \o f.name \o <<" ">> \o getTypeString(f, "postgres", FALSE)

PostgresType(type) ==
  LET stmt(f) == PostgresEnumType(f, ");\n")
      enums == SelectSeq(type.fields, IsEnumOrSet)
      typeStatements == [n \in DOMAIN enums |-> stmt(enums[n])]
  IN Join(typeStatements, <<>>)
     \o Opt(type.comment # <<>>, <<"/**\n">> \o type.comment \o <<"\n*/\n">>)
     \o <<"CREATE TYPE ">> \o type.name \o <<" AS (\n">>
     \o Join([n \in DOMAIN type.fields |-> PostgresTypeField(type.fields[n])], <<"\n">>)
     \o <<"\n);">>

PostgresColumn(kw, field) ==
  FieldComment(field) \o <<"\t\"">> \o field.name \o <<"\" ">>
  \o getTypeString(field, "postgres", FALSE)
  \o Opt(field.notNull, <<" NOT NULL">>)
  \o Opt(field.default # <<>>, <<" DEFAULT ">> \o parseDefault(kw, field))
  \o CheckClause(field)

PostgresIndex(table, i) ==
  <<"\nCREATE ">> \o Opt(i.unique, <<"UNIQUE ">>) \o <<"INDEX \"">> \o i.name
  \o <<"\"\nON \"">> \o table.name \o <<"\" (">> \o IndexFields(i, "\"", "\"")
  \o <<");">>

PostgresTable(kw, table) ==
  LET col(f) == PostgresColumn(kw, f)
      idx(i) == PostgresIndex(table, i)
      stmt(f) == PostgresEnumType(f, ");\n\n")
      enums == SelectSeq(table.fields, IsEnumOrSet)
  IN Opt(table.comment # <<>>, <<"/**\n">> \o table.comment \o <<"\n*/\n">>)
     \o Opt(Len(enums) > 0, ArrayToString([n \in DOMAIN enums |-> stmt(enums[n])]))
     \o <<"CREATE TABLE \"">> \o table.name \o <<"\" (\n">>
     \o Join([n \in DOMAIN table.fields |-> col(table.fields[n])], <<",\n">>)
     \o PrimaryKeyClause(table, "\"", "\"")
     \o <<"\n);\n">>
     \o Opt(Len(table.indices) > 0, ArrayToString([n \in DOMAIN table.indices |-> idx(table.indices[n])]))

jsonToPostgreSQL(kw, o) ==
  LET tbl(t) == PostgresTable(kw, t)
      ref(r) == AlterTable(o, r, "\"", "\"", ";")
  IN ArrayToString([n \in DOMAIN o.types |-> PostgresType(o.types[n])]) \o <<"\n">>
     \o Join([n \in DOMAIN o.tables |-> tbl(o.tables[n])], <<"\n">>) \o <<"\n">>
     \o Join([n \in DOMAIN o.references |-> ref(o.references[n])], <<"\n">>)

-----------------------------------------------------------------------------
(* jsonToSQLite                                                            *)

InlineFK(o, table, r) ==
  <<"FOREIGN KEY (\"">> \o table.fields[r.startFieldId + 1].name
  \o <<"\") REFERENCES \"">> \o o.tables[r.endTableId + 1].name
  \o <<"\"(\"">> \o o.tables[r.endTableId + 1].fields[r.endFieldId + 1].name
  \o <<"\")\n\tON UPDATE ">> \o toUpperCase(r.updateConstraint)
  \o <<" ON DELETE ">> \o toUpperCase(r.deleteConstraint)

(* InlineFKFrom without the early return: the last matching reference wins *)
RECURSIVE InlineFKFrom_Last(_, _, _, _)
InlineFKFrom_Last(o, table, i, fk) ==
  IF i > Len(o.references) THEN fk
  ELSE IF o.references[i].startTableId = table.id
    THEN InlineFKFrom_Last(o, table, i + 1, InlineFK(o, table, o.references[i]))
  ELSE InlineFKFrom_Last(o, table, i + 1, fk)

(* the forEach of getInlineFK from reference i on, fk the value so far *)
RECURSIVE InlineFKFrom(_, _, _, _)
InlineFKFrom(o, table, i, fk) ==
  IF i > Len(o.references) THEN fk
  ELSE IF fk # <<>> THEN InlineFKFrom(o, table, i + 1, fk)
  ELSE IF o.references[i].startTableId = table.id
    THEN InlineFKFrom(o, table, i + 1, InlineFK(o, table, o.references[i]))
  ELSE InlineFKFrom(o, table, i + 1, fk)

getInlineFK(table, o) == InlineFKFrom(o, table, 1, <<>>)

SQLiteColumn(kw, field) ==
  FieldComment(field) \o <<"\t\"">> \o field.name \o <<"\" ">>
  \o getSQLiteType(field)
  \o Opt(field.notNull, <<" NOT NULL">>)
  \o Opt(field.unique, <<" UNIQUE">>)
  \o Opt(field.default # <<>>, <<" DEFAULT ">> \o parseDefault(kw, field))
  \o CheckClause(field)

SQLiteIndex(table, i) ==
  <<"\nCREATE ">> \o Opt(i.unique, <<"UNIQUE ">>)
  \o <<"INDEX IF NOT EXISTS \"">> \o i.name
  \o <<"\"\nON \"">> \o table.name \o <<"\" (">> \o IndexFields(i, "\"", "\"")
  \o <<");">>

SQLiteTable(kw, o, table) ==
  LET col(f) == SQLiteColumn(kw, f)
      idx(i) == SQLiteIndex(table, i)
      inlineFK == getInlineFK(table, o)
  IN Opt(table.comment # <<>>, <<"/* ">> \o table.comment \o <<" */\n">>)
     \o <<"CREATE TABLE IF NOT EXISTS \"">> \o table.name \o <<"\" (\n">>
     \o Join([n \in DOMAIN table.fields |-> col(table.fields[n])], <<",\n">>)
     \o (IF Len(SelectSeq(table.fields, IsPrimary)) > 0
           THEN PrimaryKeyClause(table, "\"", "\"")
                \o Opt(inlineFK # <<>>, <<",\n">>)
           ELSE <<>>)
     \o <<"\t">> \o inlineFK \o <<"\n);\n">>
     \o Opt(Len(table.indices) > 0,
            Join([n \in DOMAIN table.indices |-> idx(table.indices[n])], <<"\n">>))

jsonToSQLite(kw, o) ==
  LET tbl(t) == SQLiteTable(kw, o, t)
  IN Join([n \in DOMAIN o.tables |-> tbl(o.tables[n])], <<"\n">>)

-----------------------------------------------------------------------------
(* jsonToSQLServer                                                         *)

(* type.fields[0] of a type with no field is undefined, and getTypeString *)
(* reads its type                                                          *)
SQLServerType(type) ==
  Opt(type.comment # <<>>, <<"/**\n">> \o type.comment \o <<"\n*/\n">>)
  \o <<"CREATE TYPE [">> \o type.name \o <<"] FROM ">>
  \o (IF Len(type.fields) < 0 THEN <<>>
      ELSE IF Len(type.fields) = 0 THEN <<TypeError>>
      ELSE getTypeString(type.fields[1], "mssql", TRUE))
  \o <<";\nGO\n">>

SQLServerColumn(kw, field) ==
  FieldComment(field) \o <<"\t[">> \o field.name \o <<"] ">>
  \o getTypeString(field, "mssql", FALSE)
  \o Opt(field.notNull, <<" NOT NULL">>)
  \o Opt(field.increment, <<" IDENTITY">>)
  \o Opt(field.unique, <<" UNIQUE">>)
  \o Opt(field.default # <<>>, <<" DEFAULT ">> \o parseDefault(kw, field))
  \o CheckClause(field)

SQLServerIndex(table, i) ==
  <<"\nCREATE ">> \o Opt(i.unique, <<"UNIQUE ">>) \o <<"INDEX [">> \o i.name
  \o <<"]\nON [">> \o table.name \o <<"] (">> \o IndexFields(i, "[", "]")
  \o <<");\nGO\n">>

SQLServerTable(kw, table) ==
  LET col(f) == SQLServerColumn(kw, f)
      idx(i) == SQLServerIndex(table, i)
  IN Opt(table.comment # <<>>, <<"/**\n">> \o table.comment \o <<"\n*/\n">>)
     \o <<"CREATE TABLE [">> \o table.name \o <<"] (\n">>
     \o Join([n \in DOMAIN table.fields |-> col(table.fields[n])], <<",\n">>)
     \o PrimaryKeyClause(table, "[", "]")
     \o <<"\n);\nGO\n">>
     \o Opt(Len(table.indices) > 0, ArrayToString([n \in DOMAIN table.indices |-> idx(table.indices[n])]))

jsonToSQLServer(kw, o) ==
  LET tbl(t) == SQLServerTable(kw, t)
      ref(r) == AlterTable(o, r, "[", "]", ";\nGO")
  IN Join([n \in DOMAIN o.types |-> SQLServerType(o.types[n])], <<"\n">>) \o <<"\n">>
     \o Join([n \in DOMAIN o.tables |-> tbl(o.tables[n])], <<"\n">>) \o <<"\n">>
     \o Join([n \in DOMAIN o.references |-> ref(o.references[n])], <<"\n">>)

-----------------------------------------------------------------------------
(* The documents the operations are given                                  *)

MaxTables == 2
MaxFields == 2
MaxRefs == 2
MaxIndices == 2

DigitChar == <<"1","2","3","4","5","6","7","8","9">>

TableName(k) == <<"t", DigitChar[k]>>

FieldName(j) == <<"f", DigitChar[j]>>

IndexName(j) == <<"i", DigitChar[j]>>

(* two composite type names: a Type named pt can be declared, and PT then *)
(* resolves to it; Geo resolves to no Type, whatever the document declares *)
T_PT == <<"P","T">>
T_GEO == <<"G","e","o">>

Field(name, type, size, values, notNull, unique, increment, primary, default, check, comment) ==
  [ name |-> name, type |-> type, size |-> size, values |-> values,
    notNull |-> notNull, unique |-> unique, increment |-> increment,
    primary |-> primary, default |-> default, check |-> check,
    comment |-> comment ]

PlainField(name, type, values, primary, unique) ==
  Field(name, type, Undefined, values, FALSE, unique, FALSE, primary,
        <<>>, <<>>, <<>>)

ValuesAB == << <<"a">>, <<"B">> >>
ValuesBA == << <<"B">>, <<"a">> >>

(* what a field of the first table may be: type, values, primary, unique *)
Shapes ==
  { <<T_INT, <<>>, TRUE, FALSE>>,
    <<T_INT, <<>>, FALSE, TRUE>>,
    <<T_ENUM, ValuesAB, FALSE, FALSE>>,
    <<T_ENUM, ValuesBA, TRUE, FALSE>>,
    <<T_PT, <<>>, FALSE, FALSE>>,
    <<T_GEO, <<>>, FALSE, FALSE>> }

ShapeLists == UNION { [1..n -> Shapes] : n \in 0..MaxFields }

ShapedFields(sl) ==
  [j \in 1..Len(sl) |->
     PlainField(FieldName(j), sl[j][1], sl[j][2], sl[j][3], sl[j][4])]

(* a table of MaxFields INT columns, the first of them primary or not *)
IntFields(primary) ==
  [j \in 1..MaxFields |->
     PlainField(FieldName(j), T_INT, <<>>, primary /\ j = 1, FALSE)]

Table(k, fields, indices) ==
  [ id |-> k - 1, name |-> TableName(k), comment |-> <<>>,
    fields |-> fields, indices |-> indices ]

PtType ==
  [ name |-> <<"p","t">>, comment |-> <<>>,
    fields |-> << PlainField(<<"x">>, T_DOUBLE, <<>>, FALSE, FALSE),
                  PlainField(<<"k">>, T_ENUM, ValuesAB, FALSE, FALSE) >> ]

TypeLists == { <<>>, <<PtType>> }

ConstraintPairs ==
  { << <<"c","a","s","c","a","d","e">>, <<"N","o"," ","A","c","t","i","o","n">> >>,
    << <<"S","E","T"," ","N","U","L","L">>, <<"r","e","s","t","r","i","c","t">> >> }

Reference(st, sf, et, ef, pair) ==
  [ startTableId |-> st - 1, startFieldId |-> sf - 1,
    endTableId |-> et - 1, endFieldId |-> ef - 1,
    updateConstraint |-> pair[1], deleteConstraint |-> pair[2] ]

(* references between the first two of the tables ts whose ids resolve *)
RefsOf(ts) ==
  { Reference(x[1], x[2], x[3], 1, x[4]) :
      x \in { y \in (1..2) \X (1..2) \X (1..2) \X ConstraintPairs :
                /\ y[1] <= Len(ts) /\ y[3] <= Len(ts)
                /\ y[1] # y[3]
                /\ y[2] <= Len(ts[y[1]].fields)
                /\ 1 <= Len(ts[y[3]].fields) } }

RefLists(ts) == UNION { [1..n -> RefsOf(ts)] : n \in 0..MaxRefs }

Indexes ==
  { [name |-> <<"i">>, unique |-> u, fields |-> fs] :
      u \in BOOLEAN, fs \in { <<FieldName(1)>>, <<FieldName(1), FieldName(2)>> } }

IndexLists ==
  { [j \in 1..Len(il) |-> [il[j] EXCEPT !.name = IndexName(j)]] :
      il \in UNION { [1..n -> Indexes] : n \in 0..MaxIndices } }

Document(ts, rl, tys) == [tables |-> ts, references |-> rl, types |-> tys]

(* the first table takes every list of shapes; the others are INT tables; *)
(* at most one reference, from the first table's first column              *)
KeyDocuments ==
  { Document(ts, rl, tys) :
      <<ts, rl, tys>> \in
        { x \in { [k \in 1..n |->
                     Table(k, IF k = 1 THEN ShapedFields(sl) ELSE IntFields(TRUE),
                           <<>>)] :
                    n \in 1..MaxTables, sl \in ShapeLists }
                \X { <<>>,
                     << Reference(1, 1, 2, 1,
                                  CHOOSE p \in ConstraintPairs : p[1][1] = "c") >> }
                \X TypeLists :
            x[2] # <<>> => (Len(x[1]) >= 2 /\ Len(x[1][1].fields) >= 1) } }

(* two INT tables and every list of references between them *)
RefDocuments ==
  { Document(ts, rl, <<>>) :
      <<ts, rl>> \in
        UNION { {ts2} \X RefLists(ts2) :
                  ts2 \in { << Table(1, IntFields(p), <<>>),
                               Table(2, IntFields(TRUE), <<>>) >> :
                            p \in BOOLEAN } } }

(* one INT table and every list of indices on it *)
IndexDocuments ==
  { Document(<< Table(1, IntFields(TRUE), il) >>, <<>>, <<>>) :
      il \in IndexLists }

Documents == KeyDocuments \cup RefDocuments \cup IndexDocuments

(* one table of one column, the column taking every combination of type,  *)
(* size, flags, default, check and comment; the only Type, pt, has that    *)
(* column as its only field                                                *)
AllTypes == sqlDataTypes \cup {T_PT, T_GEO}

Sizes == { Undefined, <<>>, <<"8">> }

ValueLists(type) ==
  IF type \in {T_ENUM, T_SET} THEN {ValuesAB, ValuesBA} ELSE { <<>> }

FieldDocumentOf(f) ==
  Document(<< Table(1, <<f>>, <<>>) >>, <<>>,
           << [ name |-> <<"p","t">>, comment |-> <<>>,
                fields |-> << [f EXCEPT !.primary = FALSE,
                                        !.increment = FALSE] >> ] >>)

FieldDocuments ==
  { FieldDocumentOf(Field(FieldName(1), x[1], x[2], x[3], x[4], x[5], x[6],
                          TRUE, x[7], x[8], x[9])) :
      x \in { y \in AllTypes \X Sizes \X { <<>>, ValuesAB, ValuesBA }
                    \X BOOLEAN \X BOOLEAN \X BOOLEAN
                    \X { <<>>, <<"x">> } \X { <<>>, <<"x", ">", "0">> }
                    \X { <<>>, <<"c">> } :
                y[3] \in ValueLists(y[1]) } }

(* one table of one column, the column taking every default of at most     *)
(* MaxDefaultLen characters of DefaultChars and every spelling in          *)
(* KeywordSpellings                                                        *)
MaxDefaultLen == 3

DefaultChars == { "a", "_", "(", ")", "'", "\"", "^" }

KeywordSpellings ==
  { <<"C","U","R","R","E","N","T","_","T","I","M","E","S","T","A","M","P">>,
    <<"c","u","r","r","e","n","t","_","t","i","m","e","s","t","a","m","p">>,
    <<"C","u","r","r","e","n","t","_","T","i","m","e","S","t","a","m","p">>,
    <<"N","U","L","L">>, <<"n","u","l","l">>, <<"N","u","l","L">>,
    <<"N","U","L","L","S">>, <<"n","o","w","(",")">>,
    <<"C","U","R","R","E","N","T","_","T","I","M","E">> }

Defaults ==
  UNION { [1..n -> DefaultChars] : n \in 0..MaxDefaultLen }

DefaultTypes == { T_VARCHAR, T_TIMESTAMP, T_ENUM, T_INT, T_GEO }

DefaultField(type, default) ==
  Field(FieldName(1), type, <<>>, ValuesAB, FALSE, FALSE, FALSE, FALSE,
        default, <<>>, <<>>)

DefaultDocuments ==
  { FieldDocumentOf(DefaultField(x[1], x[2])) :
      x \in (DefaultTypes \X Defaults) \cup (AllTypes \X KeywordSpellings) }

(* two tables whose columns are ENUM, SET or INT and have the same names in *)
(* both tables, with or without a Type that has an ENUM field of the name  *)
(* of the first column                                                     *)
EnumShapes ==
  { <<T_ENUM, ValuesAB>>, <<T_SET, ValuesBA>>, <<T_INT, <<>> >> }

EnumFields(sl) ==
  [j \in 1..Len(sl) |->
     PlainField(FieldName(j), sl[j][1], sl[j][2], j = 1, FALSE)]

EnumFieldLists ==
  { EnumFields(sl) : sl \in UNION { [1..n -> EnumShapes] : n \in 1..MaxFields } }

EnumType ==
  [ name |-> <<"p","t">>, comment |-> <<>>,
    fields |-> << PlainField(FieldName(1), T_ENUM, ValuesAB, FALSE, FALSE) >> ]

EnumDocuments ==
  { Document(<< Table(1, x[1], <<>>), Table(2, x[2], <<>>) >>, <<>>, x[3]) :
      x \in EnumFieldLists \X EnumFieldLists \X { <<>>, <<EnumType>> } }

NoArg == [kind |-> "none"]

NoResult == [threw |-> FALSE, text |-> <<>>]

InitWith(docs) ==
  /\ obj \in docs
  /\ keywords = KeywordList
  /\ op = "none"
  /\ arg = NoArg
  /\ result = NoResult

Init == InitWith(Documents)

InitField == InitWith(FieldDocuments)

InitDefault == InitWith(DefaultDocuments)

InitEnum == InitWith(EnumDocuments)

-----------------------------------------------------------------------------
(* The exposed operations, each called on the document or on a part of it  *)

FieldsIn(o) ==
  { o.tables[i].fields[j] : <<i, j>> \in
      { x \in (DOMAIN o.tables) \X (1..9) : x[2] <= Len(o.tables[x[1]].fields) } }
  \cup
  { o.types[i].fields[j] : <<i, j>> \in
      { x \in (DOMAIN o.types) \X (1..9) : x[2] <= Len(o.types[x[1]].fields) } }

Dialects == { <<"mysql", FALSE>>, <<"postgres", FALSE>>, <<"mssql", FALSE>>,
              <<"mssql", TRUE>> }

FieldArg(f) == [kind |-> "field", field |-> f]

TypeStringArg(f, d) ==
  [kind |-> "field", field |-> f, dbms |-> d[1], base |-> d[2]]

TypeArg(t) == [kind |-> "type", type |-> t]

Returns(name, a, text) ==
  /\ op' = name
  /\ arg' = a
  /\ result' = Completion(text)
  /\ UNCHANGED <<obj, keywords>>

CallMySQL == Returns("jsonToMySQL", NoArg, jsonToMySQL(keywords, obj))

CallPostgreSQL ==
  Returns("jsonToPostgreSQL", NoArg, jsonToPostgreSQL(keywords, obj))

CallSQLite == Returns("jsonToSQLite", NoArg, jsonToSQLite(keywords, obj))

CallMariaDB == Returns("jsonToMariaDB", NoArg, jsonToMariaDB(keywords, obj))

CallSQLServer ==
  Returns("jsonToSQLServer", NoArg, jsonToSQLServer(keywords, obj))

CallGetTypeString ==
  \E f \in FieldsIn(obj), d \in Dialects :
    Returns("getTypeString", TypeStringArg(f, d), getTypeString(f, d[1], d[2]))

CallGetSQLiteType ==
  \E f \in FieldsIn(obj) :
    Returns("getSQLiteType", FieldArg(f), getSQLiteType(f))

(* parseDefault remembering, in the shared keyword list, every default it *)
(* has been given                                                         *)
CallParseDefault_Caching ==
  \E f \in FieldsIn(obj) :
    /\ op' = "parseDefault"
    /\ arg' = FieldArg(f)
    /\ result' = Completion(parseDefault(keywords, f))
    /\ keywords' = IF isKeyword(keywords, f.default) THEN keywords
                   ELSE Append(keywords, toUpperCase(f.default))
    /\ UNCHANGED obj

CallParseDefault ==
  \E f \in FieldsIn(obj) :
    Returns("parseDefault", FieldArg(f), parseDefault(keywords, f))

CallGenerateSchema ==
  \E i \in DOMAIN obj.types :
    Returns("generateSchema", TypeArg(obj.types[i]),
            generateSchema(<<obj.types[i]>>))

Next ==
  \/ CallMySQL
  \/ CallPostgreSQL
  \/ CallSQLite
  \/ CallMariaDB
  \/ CallSQLServer
  \/ CallGetTypeString
  \/ CallGetSQLiteType
  \/ CallParseDefault
  \/ CallGenerateSchema

Spec == Init /\ [][Next]_vars

SpecField == InitField /\ [][Next]_vars

SpecDefault == InitDefault /\ [][Next]_vars

SpecEnum == InitEnum /\ [][Next]_vars

-----------------------------------------------------------------------------
(* Reading a generated text                                                *)

CompilerOps ==
  {"jsonToMySQL", "jsonToPostgreSQL", "jsonToSQLite", "jsonToMariaDB",
   "jsonToSQLServer"}

(* a compiler has returned text *)
Compiled(name) == op = name /\ ~result.threw

(* the identifier delimiters of a dialect (table 1 of the specification) *)
OpenQuote(name) ==
  IF name \in {"jsonToMySQL", "jsonToMariaDB"} THEN "^"
  ELSE IF name = "jsonToSQLServer" THEN "[" ELSE "\""

CloseQuote(name) ==
  IF name \in {"jsonToMySQL", "jsonToMariaDB"} THEN "^"
  ELSE IF name = "jsonToSQLServer" THEN "]" ELSE "\""

Quoted(name, ident) == <<OpenQuote(name)>> \o ident \o <<CloseQuote(name)>>

CreateTableAtoms ==
  { "CREATE TABLE ^", "CREATE OR REPLACE TABLE ^", "CREATE TABLE \"",
    "CREATE TABLE IF NOT EXISTS \"", "CREATE TABLE [" }

AlterTableAtoms == { "ALTER TABLE ^", "ALTER TABLE \"", "ALTER TABLE [" }

ColumnStartAtoms == { "\t^", "\t\"", "\t[" }

PrimaryKeyAtom == ",\n\tPRIMARY KEY("

PositionsIn(s, atoms) == {i \in DOMAIN s : s[i] \in atoms}

(* the k-th smallest element of a set of numbers *)
Nth(S, k) == CHOOSE x \in S : Cardinality({y \in S : y < x}) = k - 1

(* s from position i on starts with sub *)
StartsAt(s, i, sub) ==
  /\ i >= 1
  /\ i + Len(sub) - 1 <= Len(s)
  /\ \A j \in 1..Len(sub) : s[i + j - 1] = sub[j]

Contains(s, sub) == \E i \in 1..(Len(s) - Len(sub) + 1) : StartsAt(s, i, sub)

(* the part of text that belongs to the k-th CREATE TABLE: from its        *)
(* CREATE TABLE to the next one, to the first ALTER TABLE, or to the end   *)
TableSegment(text, k) ==
  LET creates == PositionsIn(text, CreateTableAtoms)
      alters == PositionsIn(text, AlterTableAtoms)
      first == Nth(creates, k)
      last == IF k < Cardinality(creates) THEN Nth(creates, k + 1) - 1
              ELSE IF alters # {} THEN Nth(alters, 1) - 1
              ELSE Len(text)
  IN SubSeq(text, first, last)

(* the part of text that belongs to the k-th ALTER TABLE *)
AlterSegment(text, k) ==
  LET alters == PositionsIn(text, AlterTableAtoms)
      first == Nth(alters, k)
      last == IF k < Cardinality(alters) THEN Nth(alters, k + 1) - 1
              ELSE Len(text)
  IN SubSeq(text, first, last)

PrimaryNames(table) ==
  LET primary(f) == f.primary
      pk == SelectSeq(table.fields, primary)
  IN [j \in 1..Len(pk) |-> pk[j].name]

(* a is str in upper case: no lower-case letter, the same letters *)
IsUpperCased(a, str) ==
  /\ Len(a) = Len(str)
  /\ \A i \in 1..Len(a) :
       /\ ~(\E j \in DOMAIN LowerLetters : LowerLetters[j] = a[i])
       /\ LowerChar(a[i]) = LowerChar(str[i])

-----------------------------------------------------------------------------
(* C1: whenever a compiler has returned text, it holds one CREATE TABLE    *)
(* per table, and the part of each table holds exactly one PRIMARY KEY(    *)
(* clause if the table has a primary field and none otherwise; the clause  *)
(* comes after every column line of the table and lists the names of the   *)
(* primary fields, delimited and separated by ", ", in declaration order;  *)
(* no column line carries a PRIMARY KEY of its own.                        *)
PrimaryKeyOf(name, text, k) ==
  LET seg == TableSegment(text, k)
      table == obj.tables[k]
      names == PrimaryNames(table)
      clauses == PositionsIn(seg, {PrimaryKeyAtom})
      columns == PositionsIn(seg, ColumnStartAtoms)
      quoted(n) == Quoted(name, n)
  IN /\ Cardinality(columns) = Len(table.fields)
     /\ PositionsIn(seg, {" PRIMARY KEY"}) = {}
     /\ IF Len(names) = 0 THEN clauses = {}
        ELSE /\ Cardinality(clauses) = 1
             /\ \A p \in clauses :
                  /\ \A c \in columns : c < p
                  /\ StartsAt(seg, p + 1,
                              Join([n \in DOMAIN names |-> quoted(names[n])], <<", ">>) \o <<")">>)

ThmC1 ==
  \A name \in CompilerOps :
    Compiled(name) =>
      /\ Cardinality(PositionsIn(result.text, CreateTableAtoms))
           = Len(obj.tables)
      /\ \A k \in DOMAIN obj.tables : PrimaryKeyOf(name, result.text, k)

(* SQLite has compiled a table whose two columns are both primary *)
WitC1 ==
  /\ Compiled("jsonToSQLite")
  /\ \E k \in DOMAIN obj.tables : Len(PrimaryNames(obj.tables[k])) = 2
  /\ PrimaryKeyAtom \in {result.text[i] : i \in DOMAIN result.text}

-----------------------------------------------------------------------------
(* C2: whenever a compiler has returned text, every ENUM column of every   *)
(* table has, in the part of its table: for MySQL and MariaDB the type     *)
(* ENUM("v1", "v2", ...), for SQLite the type TEXT CHECK("<name>" in       *)
(* ('v1', 'v2', ...)), each with the values of field.values in their       *)
(* order; for PostgreSQL the type <name>_t, and the same text holds a      *)
(* statement CREATE TYPE "<name>_t" AS ENUM ('v1', 'v2', ...); with those  *)
(* values in their order.  The ENUM fields of a composite Type have the    *)
(* type <name>_t and the same declaration in the PostgreSQL text.          *)
ValueList(values, q) ==
  Join([i \in 1..Len(values) |-> <<q>> \o values[i] \o <<q>>], <<", ">>)

EnumDeclared(text, f) ==
  \E i \in DOMAIN text :
    LET decl == <<"CREATE TYPE \"">> \o f.name \o <<"_t\" AS ENUM (">>
                \o ValueList(f.values, "'")
    IN /\ StartsAt(text, i, decl)
       /\ i + Len(decl) <= Len(text)
       /\ text[i + Len(decl)] \in {");\n", ");\n\n"}

EnumColumn(name, f) ==
  <<"\t" \o OpenQuote(name)>> \o f.name \o <<CloseQuote(name) \o " ">> \o
  (IF name \in {"jsonToMySQL", "jsonToMariaDB"}
     THEN T_ENUM \o <<"(">> \o ValueList(f.values, "\"") \o <<")">>
   ELSE IF name = "jsonToSQLite"
     THEN <<"TEXT CHECK(\"">> \o f.name \o <<"\" in (">>
          \o ValueList(f.values, "'") \o <<"))">>
   ELSE f.name \o <<"_t">>)

ThmC2 ==
  /\ \A name \in {"jsonToMySQL", "jsonToMariaDB", "jsonToSQLite",
                  "jsonToPostgreSQL"} :
       Compiled(name) =>
         \A k \in DOMAIN obj.tables : \A j \in DOMAIN obj.tables[k].fields :
           LET f == obj.tables[k].fields[j]
               seg == TableSegment(result.text, k)
               line == EnumColumn(name, f)
           IN f.type = T_ENUM =>
                /\ \E i \in DOMAIN seg :
                     /\ StartsAt(seg, i, line)
                     /\ name = "jsonToPostgreSQL" =>
                          Len(seg[i + Len(line)]) > 1
                /\ name = "jsonToPostgreSQL" => EnumDeclared(result.text, f)
  /\ Compiled("jsonToPostgreSQL") =>
       \A k \in DOMAIN obj.types : \A j \in DOMAIN obj.types[k].fields :
         LET f == obj.types[k].fields[j]
         IN f.type = T_ENUM =>
              /\ Contains(result.text,
                          <<"\t">> \o f.name \o <<" ">> \o f.name \o <<"_t">>)
              /\ EnumDeclared(result.text, f)

(* PostgreSQL has compiled a table with an ENUM column of values B, a *)
WitC2 ==
  /\ Compiled("jsonToPostgreSQL")
  /\ \E k \in DOMAIN obj.tables : \E j \in DOMAIN obj.tables[k].fields :
       /\ obj.tables[k].fields[j].type = T_ENUM
       /\ obj.tables[k].fields[j].values = ValuesBA
  /\ "CREATE TYPE \"" \in {result.text[i] : i \in DOMAIN result.text}

-----------------------------------------------------------------------------
(* C4: whenever the MySQL, PostgreSQL, MariaDB or SQL Server compiler has  *)
(* returned text, the text holds one ALTER TABLE per reference, each after *)
(* every CREATE TABLE; the k-th of them is the k-th reference's: it names  *)
(* tables[startTableId] and its field startFieldId, then tables[endTableId]*)
(* and its field endFieldId, and its ON UPDATE and ON DELETE actions are   *)
(* updateConstraint and deleteConstraint in upper case, the statement      *)
(* ending right after them.                                                *)
AlterCompilers ==
  {"jsonToMySQL", "jsonToPostgreSQL", "jsonToMariaDB", "jsonToSQLServer"}

(* seg from position i on is: the update action in upper case, ON DELETE, *)
(* the delete action in upper case, and then only what tails allows        *)
ActionsAt(seg, i, r, tails) ==
  LET u == Len(r.updateConstraint)
      d == Len(r.deleteConstraint)
      rest == SubSeq(seg, i + u + 1 + d, Len(seg))
  IN /\ Len(seg) >= i + u + d
     /\ IsUpperCased(SubSeq(seg, i, i + u - 1), r.updateConstraint)
     /\ seg[i + u] = " ON DELETE "
     /\ IsUpperCased(SubSeq(seg, i + u + 1, i + u + d), r.deleteConstraint)
     /\ rest \in tails

AlterOf(name, seg, r) ==
  LET st == obj.tables[r.startTableId + 1]
      et == obj.tables[r.endTableId + 1]
      head == <<"ALTER TABLE " \o OpenQuote(name)>> \o st.name
              \o <<CloseQuote(name) \o "\nADD FOREIGN KEY(" \o OpenQuote(name)>>
              \o st.fields[r.startFieldId + 1].name
              \o <<CloseQuote(name) \o ") REFERENCES " \o OpenQuote(name)>>
              \o et.name
              \o <<CloseQuote(name) \o "(" \o OpenQuote(name)>>
              \o et.fields[r.endFieldId + 1].name
              \o <<CloseQuote(name) \o ")\nON UPDATE ">>
      end == IF name = "jsonToSQLServer" THEN ";\nGO" ELSE ";"
  IN /\ StartsAt(seg, 1, head)
     /\ ActionsAt(seg, Len(head) + 1, r, { <<end>>, <<end, "\n">> })

ThmC4 ==
  \A name \in AlterCompilers :
    Compiled(name) =>
      LET creates == PositionsIn(result.text, CreateTableAtoms)
          alters == PositionsIn(result.text, AlterTableAtoms)
      IN /\ Cardinality(alters) = Len(obj.references)
         /\ \A c \in creates, a \in alters : c < a
         /\ \A k \in DOMAIN obj.references :
              AlterOf(name, AlterSegment(result.text, k), obj.references[k])

(* SQL Server has compiled two references whose actions were given in      *)
(* lower or mixed case                                                     *)
WitC4 ==
  /\ Compiled("jsonToSQLServer")
  /\ Len(obj.references) = 2
  /\ obj.references[1] # obj.references[2]
  /\ \E k \in 1..2 : obj.references[k].updateConstraint[1] = "c"
  /\ Cardinality(PositionsIn(result.text, AlterTableAtoms)) = 2

-----------------------------------------------------------------------------
(* C5: whenever the SQLite compiler has returned text, the text holds no   *)
(* ALTER TABLE; the part of each table holds one FOREIGN KEY clause if     *)
(* some reference starts at the table's id and none otherwise; the clause  *)
(* stands before the closing parenthesis of the CREATE TABLE and is that   *)
(* of the first such reference in obj.references, its actions in upper     *)
(* case; so no later reference starting at that table is emitted.          *)
ForeignKeyAtom == "FOREIGN KEY (\""

InlineOf(seg, table) ==
  LET fks == PositionsIn(seg, {ForeignKeyAtom})
      from == {i \in DOMAIN obj.references :
                 obj.references[i].startTableId = table.id}
  IN IF from = {} THEN fks = {}
     ELSE LET r == obj.references[Nth(from, 1)]
              et == obj.tables[r.endTableId + 1]
              head == <<ForeignKeyAtom>> \o table.fields[r.startFieldId + 1].name
                      \o <<"\") REFERENCES \"">> \o et.name \o <<"\"(\"">>
                      \o et.fields[r.endFieldId + 1].name
                      \o <<"\")\n\tON UPDATE ">>
              body == SubSeq(seg, 1, Nth(PositionsIn(seg, {"\n);\n"}), 1) - 1)
          IN /\ Cardinality(fks) = 1
             /\ PositionsIn(seg, {"\n);\n"}) # {}
             /\ \A p \in fks :
                  /\ StartsAt(body, p, head)
                  /\ ActionsAt(body, p + Len(head), r, { <<>> })

ThmC5 ==
  Compiled("jsonToSQLite") =>
    /\ PositionsIn(result.text, AlterTableAtoms) = {}
    /\ \A i \in DOMAIN result.text : result.text[i] # "ALTER TABLE "
    /\ \A k \in DOMAIN obj.tables :
         InlineOf(TableSegment(result.text, k), obj.tables[k])
    /\ Cardinality(PositionsIn(result.text, {ForeignKeyAtom}))
         = Cardinality({obj.references[i].startTableId :
                          i \in DOMAIN obj.references})

(* SQLite has compiled two different references that start at one table *)
WitC5 ==
  /\ Compiled("jsonToSQLite")
  /\ Len(obj.references) = 2
  /\ obj.references[1].startTableId = obj.references[2].startTableId
  /\ obj.references[1] # obj.references[2]
  /\ Cardinality(PositionsIn(result.text, {ForeignKeyAtom})) = 1

-----------------------------------------------------------------------------
(* C3: parseDefault returns field.default between single quotes when the   *)
(* field's type is one that hasQuotes lists and the default is a bare      *)
(* literal: not delimited by the same quote character (', " or backquote)  *)
(* at both ends, not ending in a call identifier(args) as the pattern of   *)
(* isFunction finds it, and not a spelling, in any letter case, of         *)
(* CURRENT_TIMESTAMP or NULL.  In every other case it returns              *)
(* field.default as it is; so CURRENT_TIMESTAMP, in any letter case, is    *)
(* returned unquoted whatever the field's type.                            *)
Delimited(d) ==
  /\ Len(d) >= 2
  /\ \E q \in {"'", "\"", "^"} : d[1] = q /\ d[Len(d)] = q

EndsInCall(d) ==
  \E i \in 1..Len(d), j \in 1..Len(d) :
    /\ i < j /\ j < Len(d)
    /\ \A k \in i..(j - 1) : IsWordChar(d[k])
    /\ d[j] = "("
    /\ \A k \in (j + 1)..(Len(d) - 1) : d[k] # ")"
    /\ d[Len(d)] = ")"

SpellsKeyword(d) ==
  \E k \in { <<"C","U","R","R","E","N","T","_","T","I","M","E","S","T","A","M","P">>,
             <<"N","U","L","L">> } : IsUpperCased(k, d)

BareLiteral(d) == ~Delimited(d) /\ ~EndsInCall(d) /\ ~SpellsKeyword(d)

ThmC3 ==
  op = "parseDefault" =>
    LET f == arg.field
        d == f.default
    IN /\ ~result.threw
       /\ result.text = IF hasQuotes(f.type) /\ BareLiteral(d)
                          THEN <<"'">> \o d \o <<"'">>
                          ELSE d
       /\ IsUpperCased(KeywordList[1], d) => result.text = d

(* parseDefault has quoted the default (a) of a VARCHAR field *)
WitC3 ==
  /\ op = "parseDefault"
  /\ arg.field.type = T_VARCHAR
  /\ arg.field.default = <<"(", "a", ")">>
  /\ result.text = <<"'", "(", "a", ")", "'">>

-----------------------------------------------------------------------------
(* C6 (as the specification states it): generateSchema(type) returns an    *)
(* object schema with one property per field, in field order, and          *)
(* additionalProperties false; the property of a field is number for INT,  *)
(* SMALLINT, BIGINT, DECIMAL, NUMERIC, REAL, FLOAT and DOUBLE, boolean for *)
(* BOOLEAN, a string restricted to field.values for ENUM, an array of such *)
(* strings for SET, and the permissive object (type object,                *)
(* additionalProperties true) for JSON and for every other type name,      *)
(* known or not.                                                           *)
PermissiveObject == <<"{ \"type\" : \"object\", \"additionalProperties\" : true }">>

StatedJsonType(f) ==
  IF f.type \in {T_INT, T_SMALLINT, T_BIGINT, T_DECIMAL, T_NUMERIC, T_REAL,
                 T_FLOAT, T_DOUBLE}
    THEN <<"{ \"type\" : \"number\" }">>
  ELSE IF f.type = T_BOOLEAN
    THEN <<"{ \"type\" : \"boolean\" }">>
  ELSE IF f.type = T_ENUM
    THEN <<"{\n\t\t\t\t\t\"type\" : \"string\",\n\t\t\t\t\t\"enum\" : [">>
         \o ValueList(f.values, "\"")
         \o <<"]\n\t\t\t\t}">>
  ELSE IF f.type = T_SET
    THEN <<"{\n\t\t\t\t\t\"type\": \"array\",\n\t\t\t\t\t\"items\": {\n\t\t\t\t\t\t\"type\": \"string\",\n\t\t\t\t\t\t\"enum\": [">>
         \o ValueList(f.values, "\"")
         \o <<"]\n\t\t\t\t\t}\n\t\t\t\t}">>
  ELSE PermissiveObject

StatedSchema(type) ==
  <<"{\n\t\t\t\"$schema\": \"http://json-schema.org/draft-04/schema#\",\n\t\t\t\"type\": \"object\",\n\t\t\t\"properties\": {\n\t\t\t\t">>
  \o Join([i \in DOMAIN type.fields |->
             <<"\"">> \o type.fields[i].name \o <<"\" : ">>
             \o StatedJsonType(type.fields[i])],
          <<",\n\t\t\t\t">>)
  \o <<"\n\t\t\t},\n\t\t\t\"additionalProperties\": false\n\t\t}">>

OrigC6 ==
  op = "generateSchema" =>
    /\ ~result.threw
    /\ result.text = StatedSchema(arg.type)

-----------------------------------------------------------------------------
(* C7 (amended): for a field whose type name is not in sqlDataTypes, type  *)
(* mapping never fails; it returns JSON for MySQL and MariaDB and BLOB for *)
(* SQLite whatever the type name, and it returns the type name itself, in  *)
(* lower case for PostgreSQL and as it is written for SQL Server.          *)
OpaqueCall ==
  /\ op \in {"getTypeString", "getSQLiteType"}
  /\ arg.field.type \notin sqlDataTypes

ThmC7 ==
  OpaqueCall =>
    LET t == arg.field.type
    IN /\ ~result.threw
       /\ result.text =
            IF op = "getSQLiteType" THEN <<"BLOB">>
            ELSE IF arg.dbms = "mysql" THEN <<"JSON">>
            ELSE IF arg.dbms = "postgres" THEN [i \in DOMAIN t |-> LowerChar(t[i])]
            ELSE t

(* getTypeString for PostgreSQL has mapped the opaque type Geo to geo *)
WitC7 ==
  /\ op = "getTypeString"
  /\ arg.dbms = "postgres"
  /\ arg.field.type = T_GEO
  /\ result.text = <<"g", "e", "o">>

(* C7 (as the specification states it): the mapping of a type name outside *)
(* sqlDataTypes is a fixed token of the dialect: JSON for MySQL and        *)
(* MariaDB, a json or jsonb type for PostgreSQL, NVARCHAR(MAX) for SQL     *)
(* Server, BLOB for SQLite.                                                *)
OrigC7 ==
  OpaqueCall =>
    /\ ~result.threw
    /\ IF op = "getSQLiteType" THEN result.text = <<"BLOB">>
       ELSE IF arg.dbms = "mysql" THEN result.text = <<"JSON">>
       ELSE IF arg.dbms = "postgres"
         THEN result.text \in { <<"jsonb">>, <<"json">>, <<"JSONB">>, <<"JSON">>,
                                <<"j","s","o","n","b">>, <<"j","s","o","n">> }
       ELSE result.text = <<"NVARCHAR(MAX)">>

-----------------------------------------------------------------------------
(* C8: no step changes the document or the keyword list, and the outcome   *)
(* of every call is the outcome the same operation has on the same         *)
(* arguments when nothing has been called before it: the result of a call  *)
(* depends on its arguments alone, whatever calls came before.             *)
Outcome(name, a, o) ==
  Completion(
    CASE name = "jsonToMySQL" -> jsonToMySQL(KeywordList, o)
      [] name = "jsonToPostgreSQL" -> jsonToPostgreSQL(KeywordList, o)
      [] name = "jsonToSQLite" -> jsonToSQLite(KeywordList, o)
      [] name = "jsonToMariaDB" -> jsonToMariaDB(KeywordList, o)
      [] name = "jsonToSQLServer" -> jsonToSQLServer(KeywordList, o)
      [] name = "getTypeString" -> getTypeString(a.field, a.dbms, a.base)
      [] name = "getSQLiteType" -> getSQLiteType(a.field)
      [] name = "parseDefault" -> parseDefault(KeywordList, a.field)
      [] name = "generateSchema" -> generateSchema(<<a.type>>))

ThmC8 ==
  [][ /\ obj' = obj
      /\ keywords' = keywords
      /\ result' = Outcome(op', arg', obj) ]_vars

(* parseDefault has quoted the default x of a VARCHAR column *)
WitC8 ==
  /\ op = "parseDefault"
  /\ arg.field.type = T_VARCHAR
  /\ arg.field.default = <<"x">>
  /\ result.text = <<"'", "x", "'">>
  /\ keywords = KeywordList

-----------------------------------------------------------------------------
(* C9 (amended): when a column of the document has a type outside          *)
(* sqlDataTypes and no Type of obj.types is named as that type in lower    *)
(* case, jsonToMySQL and jsonToMariaDB raise a TypeError and return no     *)
(* text; when every such column resolves to a Type they return text.       *)
Unresolved(o) ==
  \E i \in DOMAIN o.tables : \E j \in DOMAIN o.tables[i].fields :
    LET f == o.tables[i].fields[j]
    IN /\ f.type \notin sqlDataTypes
       /\ f.check = <<>> \/ ~hasCheck(f.type)
       /\ \A k \in DOMAIN o.types :
            o.types[k].name # [n \in DOMAIN f.type |-> LowerChar(f.type[n])]

ThmC9 ==
  op \in {"jsonToMySQL", "jsonToMariaDB"} =>
    IF Unresolved(obj)
      THEN result.threw /\ result.text = <<>>
      ELSE ~result.threw /\ result.text # <<>>

(* jsonToMySQL has raised on a document with a column of type Geo *)
WitC9 ==
  /\ op = "jsonToMySQL"
  /\ \E i \in DOMAIN obj.tables : \E j \in DOMAIN obj.tables[i].fields :
       obj.tables[i].fields[j].type = T_GEO
  /\ result.threw

(* C9 (as the specification states it): with an opaque column whose Type   *)
(* is not found, jsonToMySQL and jsonToMariaDB report no failure and       *)
(* return text.                                                            *)
OrigC9 ==
  (op \in {"jsonToMySQL", "jsonToMariaDB"} /\ Unresolved(obj)) =>
    ~result.threw /\ result.text # <<>>

-----------------------------------------------------------------------------
(* C10 (as the specification states it): on the column line of a field,    *)
(* in every compiler, the modifiers come in the order NOT NULL, increment  *)
(* modifier, UNIQUE, DEFAULT, CHECK; NOT NULL is there exactly when        *)
(* field.notNull, UNIQUE exactly when field.unique, DEFAULT exactly when   *)
(* field.default is not empty.  Read on documents of one table of one      *)
(* column.                                                                 *)
Rank(atom) ==
  CASE atom = " NOT NULL" -> 1
    [] atom \in {" AUTO_INCREMENT", " IDENTITY", " AUTOINCREMENT"} -> 2
    [] atom = " UNIQUE" -> 3
    [] atom = " DEFAULT " -> 4
    [] atom = " CHECK(" -> 5
    [] OTHER -> 0

Occurrences(s, atom) == Cardinality({i \in DOMAIN s : s[i] = atom})

OrigC10 ==
  \A name \in CompilerOps :
    Compiled(name) =>
      LET line == TableSegment(result.text, 1)
          f == obj.tables[1].fields[1]
      IN /\ Occurrences(line, " NOT NULL") = IF f.notNull THEN 1 ELSE 0
         /\ Occurrences(line, " UNIQUE") = IF f.unique THEN 1 ELSE 0
         /\ Occurrences(line, " DEFAULT ") = IF f.default # <<>> THEN 1 ELSE 0
         /\ \A i \in DOMAIN line : \A j \in DOMAIN line :
              (i < j /\ Rank(line[i]) > 0 /\ Rank(line[j]) > 0)
                => Rank(line[i]) < Rank(line[j])

-----------------------------------------------------------------------------
(* C11 (as the specification states it): the column line of a SMALLINT,    *)
(* INT or BIGINT field with increment = true expresses auto-increment in   *)
(* every dialect: PostgreSQL has the type smallserial, serial or bigserial,*)
(* MySQL and MariaDB have the type unchanged and AUTO_INCREMENT, SQL       *)
(* Server has the type unchanged and IDENTITY, SQLite has its mapped type  *)
(* and an identity modifier; with increment = false the line has no serial *)
(* type and no identity modifier.  Read on documents of one table of one   *)
(* column.                                                                 *)
IdentityAtoms == {" AUTO_INCREMENT", " IDENTITY", " AUTOINCREMENT"}

SerialAtoms == {"smallserial", "serial", "bigserial"}

SerialOf(type) ==
  IF type = T_SMALLINT THEN <<"smallserial">>
  ELSE IF type = T_INT THEN <<"serial">>
  ELSE <<"bigserial">>

ColumnHead(name, f) ==
  <<"\t" \o OpenQuote(name)>> \o f.name \o <<CloseQuote(name) \o " ">>

StatedIntegerType(name, f) ==
  IF name = "jsonToPostgreSQL"
    THEN IF f.increment THEN SerialOf(f.type)
         ELSE [n \in DOMAIN f.type |-> LowerChar(f.type[n])]
  ELSE IF name = "jsonToSQLite" THEN <<"INTEGER">>
  ELSE f.type

OrigC11 ==
  \A name \in CompilerOps :
    (Compiled(name) /\ obj.tables[1].fields[1].type \in {T_SMALLINT, T_INT, T_BIGINT}) =>
      LET line == TableSegment(result.text, 1)
          f == obj.tables[1].fields[1]
          identities == Cardinality(PositionsIn(line, IdentityAtoms))
      IN /\ Contains(line, ColumnHead(name, f) \o StatedIntegerType(name, f))
         /\ PositionsIn(line, SerialAtoms) # {}
              <=> (f.increment /\ name = "jsonToPostgreSQL")
         /\ identities = IF f.increment /\ name # "jsonToPostgreSQL" THEN 1 ELSE 0

-----------------------------------------------------------------------------
(* C12 (as the specification states it): for CHAR, VARCHAR, BINARY,        *)
(* VARBINARY and TEXT, in each dialect of getTypeString, the mapped type   *)
(* is the dialect's type token followed by (size) when field.size is       *)
(* present, and the bare token when field.size is undefined or empty; for  *)
(* DECIMAL, NUMERIC, DOUBLE and FLOAT a present size follows the token in  *)
(* parentheses as well.                                                    *)
SizePresent(size) == size # Undefined /\ size # <<>>

TypeTokens(dbms, type) ==
  LET lower == [n \in DOMAIN type |-> LowerChar(type[n])]
  IN IF dbms = "mysql" THEN {type}
     ELSE IF dbms = "postgres"
       THEN IF type = T_BINARY THEN { <<"bit">> }
            ELSE IF type = T_VARBINARY THEN { <<"bit varying">> }
            ELSE {type, lower}
     ELSE IF type = T_VARCHAR THEN { <<"NVARCHAR">> }
     ELSE IF type = T_DOUBLE THEN { <<"FLOAT">> }
     ELSE IF type = T_TEXT THEN { <<"TEXT">>, type }
     ELSE {type}

OrigC12 ==
  op = "getTypeString" =>
    LET f == arg.field
        tokens == TypeTokens(arg.dbms, f.type)
        sizedTokens == { t \o <<"(">> \o f.size \o <<")">> : t \in tokens }
    IN /\ isSized(f.type) =>
            /\ ~result.threw
            /\ result.text \in (IF SizePresent(f.size) THEN sizedTokens ELSE tokens)
       /\ (hasPrecision(f.type) /\ SizePresent(f.size)) =>
            /\ ~result.threw
            /\ result.text \in sizedTokens

-----------------------------------------------------------------------------
(* C13 (as the specification states it): in the text of jsonToSQLite, the  *)
(* FOREIGN KEY clause of a table with a matching reference comes after a   *)
(* comma that separates it from the clause before it, whether the table    *)
(* has a primary field or not; in a table with no matching reference no    *)
(* comma stands before the closing parenthesis.                            *)
CommaAtom == ",\n"

ClosingAtom == "\n);\n"

(* the atom before position p of seg, tabs skipped; "" when there is none *)
ClauseEndBefore(seg, p) ==
  LET before == {i \in 1..(p - 1) : seg[i] # "\t"}
  IN IF before = {} THEN ""
     ELSE seg[CHOOSE i \in before : \A j \in before : j <= i]

OrigC13 ==
  Compiled("jsonToSQLite") =>
    \A k \in DOMAIN obj.tables :
      LET seg == TableSegment(result.text, k)
          matching == \E i \in DOMAIN obj.references :
                        obj.references[i].startTableId = obj.tables[k].id
          fks == PositionsIn(seg, {ForeignKeyAtom})
          closings == PositionsIn(seg, {ClosingAtom})
      IN IF matching
           THEN /\ fks # {}
                /\ \A p \in fks : ClauseEndBefore(seg, p) = CommaAtom
           ELSE /\ closings # {}
                /\ \A c \in closings : ClauseEndBefore(seg, c) # CommaAtom

-----------------------------------------------------------------------------
(* C14 (as the specification states it): for a table with n indices each   *)
(* compiler emits n CREATE [UNIQUE] INDEX statements after the table, in   *)
(* index order, each ended by its own semicolon, and nothing but white     *)
(* space (and GO for SQL Server, which ends the statement) stands between  *)
(* two consecutive statements.                                             *)
IndexStartAtom == "\nCREATE "

IndexEndAtoms == { ");", ");\nGO\n" }

WhiteSpaceAtoms == { "\n", "\t", " " }

IndexHead(name, i) ==
  <<IndexStartAtom>>
  \o (IF i.unique THEN <<"UNIQUE ">> ELSE <<>>)
  \o << (IF name = "jsonToSQLite" THEN "INDEX IF NOT EXISTS " ELSE "INDEX ")
        \o OpenQuote(name) >>
  \o i.name

OrigC14 ==
  \A name \in CompilerOps :
    Compiled(name) =>
      \A k \in DOMAIN obj.tables :
        LET seg == TableSegment(result.text, k)
            indices == obj.tables[k].indices
            starts == PositionsIn(seg, {IndexStartAtom})
            ends == PositionsIn(seg, IndexEndAtoms)
        IN /\ Cardinality(starts) = Len(indices)
           /\ Cardinality(ends) = Len(indices)
           /\ \A j \in DOMAIN indices :
                /\ StartsAt(seg, Nth(starts, j), IndexHead(name, indices[j]))
                /\ Nth(starts, j) < Nth(ends, j)
                /\ j < Len(indices) =>
                     /\ Nth(ends, j) < Nth(starts, j + 1)
                     /\ \A p \in (Nth(ends, j) + 1)..(Nth(starts, j + 1) - 1) :
                          seg[p] \in WhiteSpaceAtoms

-----------------------------------------------------------------------------
(* C15 (as the specification states it): in the text of jsonToPostgreSQL,  *)
(* the type <name>_t of every ENUM or SET field, of a table or of a Type,  *)
(* is declared by exactly one CREATE TYPE "<name>_t" AS ENUM statement in  *)
(* the whole text, and that statement comes before the first use of the    *)
(* type, also when two tables, or a table and a Type, have ENUM or SET     *)
(* fields of the same name.                                                *)
EnumFieldNames(o) ==
  { o.tables[x[1]].fields[x[2]].name :
      x \in { y \in (DOMAIN o.tables) \X (1..9) :
                /\ y[2] <= Len(o.tables[y[1]].fields)
                /\ o.tables[y[1]].fields[y[2]].type \in {T_ENUM, T_SET} } }
  \cup
  { o.types[x[1]].fields[x[2]].name :
      x \in { y \in (DOMAIN o.types) \X (1..9) :
                /\ y[2] <= Len(o.types[y[1]].fields)
                /\ o.types[y[1]].fields[y[2]].type \in {T_ENUM, T_SET} } }

EnumDeclarations(text, nm) ==
  { i \in DOMAIN text :
      StartsAt(text, i, <<"CREATE TYPE \"">> \o nm \o <<"_t\" AS ENUM (">>) }

EnumUses(text, nm) ==
  { i \in DOMAIN text :
      \/ StartsAt(text, i, nm \o <<"_t">>)
      \/ StartsAt(text, i, nm \o <<"_t[]">>) }

OrigC15 ==
  Compiled("jsonToPostgreSQL") =>
    \A nm \in EnumFieldNames(obj) :
      LET declarations == EnumDeclarations(result.text, nm)
          uses == EnumUses(result.text, nm)
      IN /\ Cardinality(declarations) = 1
         /\ uses # {}
         /\ \A d \in declarations : \A u \in uses : d < u

=============================================================================
